---- MODULE Spec2Model ----
(***************************************************************************)
(* A model of pyqtgraph/widgets/ValueLabel.py: the ValueLabel widget, its  *)
(* time-windowed sample buffer, its error statistics and the text it       *)
(* renders on paintEvent.                                                  *)
(*                                                                         *)
(* Numbers.  Sample values and errors are small integers.  The results of  *)
(* averageValue and averageError are exact reals of the form n/d or        *)
(* sqrt(n/d), kept as records [num, den, root] in lowest terms, so that    *)
(* equality of records is equality of the numbers.                         *)
(*                                                                         *)
(* Text.  A rendered string is a sequence of atoms: a literal piece of     *)
(* text, or a number formatted under a format specification.  The          *)
(* formatting mini-language and pg.siFormat are collaborators; an atom     *)
(* records what was passed to them.                                        *)
(*                                                                         *)
(* Specifications.  Spec runs the operations under a running clock, with   *)
(* samples that differ in their timestamps; SpecRender runs them between   *)
(* two readings of the clock, with samples that differ in their values and *)
(* errors; SpecSteady runs them with a constant averaging window and       *)
(* strictly increasing timestamps.                                         *)
(***************************************************************************)
EXTENDS Integers, Sequences, FiniteSets, TLC

\* ---------------------------------------------------------------- bounds

\* The clock readings time() returns are 0..MaxTime.
MaxTime == 3

\* At most MaxCalls calls of setValue are made.
MaxCalls == 3

\* At most MaxSamples samples arrive between two readings of the clock.
MaxSamples == 2

\* floor(log10(x)) is searched for in -MaxExp..MaxExp.
MaxExp == 3

\* The values and per-sample errors passed to setValue.
Values == {-1, 0, 1}

Errors == {0, 1}

\* The one value and error passed to setValue where only the timestamps matter.
AnyValue == {1}

AnyError == {0}

\* The suffixes given at construction.
Suffixes == {"", "V"}

\* The averaging windows given at construction and to setAverageTime.
AverageTimes == {-1, 0, 1}

\* The selectors given at construction and to setErrorType.
ErrorTypes == {"avg", "max", "stdDev", "stdErr", "bogus"}

\* ---------------------------------------------------------------- numbers

Abs(n) == IF n < 0 THEN -n ELSE n

RECURSIVE GCD(_, _)
GCD(a, b) == IF b = 0 THEN a ELSE GCD(b, a % b)

\* The integer square root of n >= 0.
ISqrt(n) == CHOOSE r \in 0..n : r * r <= n /\ (r + 1) * (r + 1) > n

IsSquare(n) == ISqrt(n) * ISqrt(n) = n

\* The rational n/d (d > 0) in lowest terms.
Rat(n, d) ==
    LET g == GCD(Abs(n), d)
    IN  [num |-> n \div g, den |-> d \div g, root |-> FALSE]

\* The real sqrt(n/d) (n >= 0, d > 0): a rational when n/d is a square.
Sqrt(n, d) ==
    LET q == Rat(n, d)
    IN  IF IsSquare(q.num) /\ IsSquare(q.den)
        THEN [num |-> ISqrt(q.num), den |-> ISqrt(q.den), root |-> FALSE]
        ELSE [num |-> q.num, den |-> q.den, root |-> TRUE]

Zero == Rat(0, 1)

IsNegative(x) == x.num < 0

RECURSIVE Pow10(_)
Pow10(k) == IF k = 0 THEN 1 ELSE 10 * Pow10(k - 1)

\* 10^k <= n/d, for n, d > 0.
AtLeastPow10(n, d, k) ==
    IF k >= 0 THEN Pow10(k) * d <= n ELSE d <= n * Pow10(-k)

\* np.floor(np.log10(x)) for x > 0.
FloorLog10(x) ==
    CHOOSE k \in -MaxExp..MaxExp :
        IF x.root
        THEN AtLeastPow10(x.num, x.den, 2 * k) /\ ~AtLeastPow10(x.num, x.den, 2 * k + 2)
        ELSE AtLeastPow10(x.num, x.den, k) /\ ~AtLeastPow10(x.num, x.den, k + 1)

RECURSIVE SumOf(_, _)
SumOf(vals, i) == IF vals = <<>> THEN 0 ELSE Head(vals)[i] + SumOf(Tail(vals), i)

RECURSIVE SumSqOf(_, _)
SumSqOf(vals, i) ==
    IF vals = <<>> THEN 0 ELSE Head(vals)[i] * Head(vals)[i] + SumSqOf(Tail(vals), i)

MaxOf(vals, i) ==
    CHOOSE m \in {vals[k][i] : k \in 1..Len(vals)} :
        \A k \in 1..Len(vals) : vals[k][i] <= m

\* np.mean of field i of the samples.
Mean(vals, i) == Rat(SumOf(vals, i), Len(vals))

\* np.std of field i of the samples: the population standard deviation.
Std(vals, i) ==
    LET n == Len(vals)
        s == SumOf(vals, i)
    IN  Sqrt(n * SumSqOf(vals, i) - s * s, n * n)

\* np.std(val) / np.sqrt(len(val))
StdErr(vals, i) ==
    LET n == Len(vals)
        s == SumOf(vals, i)
    IN  Sqrt(n * SumSqOf(vals, i) - s * s, n * n * n)

\* ---------------------------------------------------------------- state

VARIABLES
    values,       \* self.values: the samples <<timestamp, value, error>>
    averageTime,  \* self.averageTime
    suffix,       \* self.suffix
    siPrefix,     \* self.siPrefix
    formatStr,    \* self.formatStr
    error,        \* self._error
    errorType,    \* self._errorType
    text,         \* the QLabel's text, set by paintEvent
    refresh,      \* an update() request is pending
    clock,        \* the last reading of time()
    history       \* a log of every sample setValue has appended, in order

vars == <<values, averageTime, suffix, siPrefix, formatStr, error, errorType,
          text, refresh, clock, history>>

\* ---------------------------------------------------------------- templates

\* formatStr=None at construction.
None == "<None>"

\* The default templates; +/- stands for the plus-minus sign of the source.
DefaultErrorFormat == "{avgValue:.{precision}g} +/- {avgError:.1g} {suffix}"

DefaultFormat == "{avgValue:0.2g} {suffix}"

\* A template the application supplies.
CustomFormat == "{value} {suffix}"

Formats == {CustomFormat}

Lit(s) == [kind |-> "lit", name |-> s, spec |-> "", prec |-> 0, nested |-> FALSE]

\* A replacement field {name:spec}; nested when spec holds {precision}.
Field(n, s, p, nest) == [kind |-> "field", name |-> n, spec |-> s, prec |-> p, nested |-> nest]

\* The literal text and replacement fields str.format finds in a template.
Parse(fmt) ==
    CASE fmt = DefaultErrorFormat ->
            << Field("avgValue", ".{precision}g", 0, TRUE), Lit(" "), Lit("+/-"), Lit(" "),
               Field("avgError", ".1g", 1, FALSE), Lit(" "), Field("suffix", "", 0, FALSE) >>
      [] fmt = DefaultFormat ->
            << Field("avgValue", "0.2g", 2, FALSE), Lit(" "), Field("suffix", "", 0, FALSE) >>
      [] fmt = CustomFormat ->
            << Field("value", "", 0, FALSE), Lit(" "), Field("suffix", "", 0, FALSE) >>

\* The named fields a template refers to, nested ones included.
FieldsOf(fmt) ==
    LET parts == Parse(fmt)
    IN  {parts[i].name : i \in {j \in 1..Len(parts) : parts[j].kind = "field"}}
        \cup {"precision" : i \in {j \in 1..Len(parts) : parts[j].nested}}

\* ---------------------------------------------------------------- text

\* A piece of literal text.
TextAtom(s) == [kind |-> "lit", str |-> s, val |-> Zero, err |-> Zero, spec |-> "", prec |-> 0]

\* The number x formatted under spec with precision p.
NumAtom(x, s, p) == [kind |-> "num", str |-> "", val |-> x, err |-> Zero, spec |-> s, prec |-> p]

\* What pg.siFormat makes of x (and its error e) with the given options.
SiAtom(x, e, suf, opts) == [kind |-> "si", str |-> suf, val |-> x, err |-> e, spec |-> opts, prec |-> 0]

Ok(t) == [exc |-> "none", text |-> t]

Raise(e) == [exc |-> e, text |-> <<>>]

IsSpace(a) == a.kind = "lit" /\ a.str = " "

IsEmpty(a) == a.kind = "lit" /\ a.str = ""

RECURSIVE LStrip(_)
LStrip(t) == IF t # <<>> /\ IsSpace(Head(t)) THEN LStrip(Tail(t)) ELSE t

RECURSIVE RStrip(_)
RStrip(t) ==
    IF t # <<>> /\ IsSpace(t[Len(t)]) THEN RStrip(SubSeq(t, 1, Len(t) - 1)) ELSE t

\* str.strip(' ') of the concatenation of the atoms: empty pieces vanish in
\* the concatenation, then the leading and trailing spaces go.
Strip(t) == RStrip(LStrip(SelectSeq(t, LAMBDA a : ~IsEmpty(a))))

\* One part of a template rendered under the keyword arguments kw.
Render(part, kw) ==
    IF part.kind = "lit" THEN TextAtom(part.name)
    ELSE IF part.name = "suffix" THEN TextAtom(kw.suffix)
    ELSE NumAtom(kw[part.name], part.spec, IF part.nested THEN kw.precision ELSE part.prec)

\* fmt.format(**kw): KeyError for a field kw does not bind, ValueError for a
\* negative nested precision ("Format specifier missing precision").
Format(fmt, kw) ==
    LET parts == Parse(fmt)
    IN  IF ~(FieldsOf(fmt) \subseteq DOMAIN kw) THEN Raise("KeyError")
        ELSE IF \E i \in 1..Len(parts) : parts[i].nested /\ kw.precision < 0
        THEN Raise("ValueError")
        ELSE Ok([i \in 1..Len(parts) |-> Render(parts[i], kw)])

\* x.strip(' ') of a format result.
Stripped(r) == IF r.exc = "none" THEN Ok(Strip(r.text)) ELSE r

\* ---------------------------------------------------------------- statistics

NaN == [num |-> 0, den |-> 0, root |-> FALSE]

Value(x) == [exc |-> "none", val |-> x]

Fail(e) == [exc |-> e, val |-> NaN]

\* reduce(+, values) / float(len(values)); reduce of no values is a TypeError.
averageValue(vals) ==
    IF vals = <<>> THEN Fail("TypeError") ELSE Value(Mean(vals, 2))

\* averageError, were an unrecognised selector an error.
averageErrorStrict(vals, type) ==
    IF type = "max" THEN Value(Rat(MaxOf(vals, 3), 1))
    ELSE IF type = "stdDev" THEN Value(Std(vals, 2))
    ELSE IF type = "stdErr" THEN Value(StdErr(vals, 2))
    ELSE IF type = "avg" THEN Value(Mean(vals, 3))
    ELSE Fail("ValueError")

\* The error statistic errorType selects; np.max of no values is a
\* ValueError, np.std and np.mean of no values are nan.
averageError(vals, type) ==
    IF type = "max"
    THEN IF vals = <<>> THEN Fail("ValueError") ELSE Value(Rat(MaxOf(vals, 3), 1))
    ELSE IF type = "stdDev"
    THEN IF vals = <<>> THEN Value(NaN) ELSE Value(Std(vals, 2))
    ELSE IF type = "stdErr"
    THEN IF vals = <<>> THEN Value(NaN) ELSE Value(StdErr(vals, 2))
    ELSE IF vals = <<>> THEN Value(NaN) ELSE Value(Mean(vals, 3))

\* ---------------------------------------------------------------- rendering

\* precision, were only avg compared with 0: log10(0) is -inf, and int(-inf)
\* is an OverflowError.
precisionAvgOnly(avg, avg_err) ==
    IF avg = Zero
    THEN [exc |-> "none", prec |-> 2, log |-> FALSE]
    ELSE IF avg_err = Zero
    THEN [exc |-> "OverflowError", prec |-> 0, log |-> TRUE]
    ELSE IF IsNegative(avg) \/ IsNegative(avg_err) \/ avg = NaN \/ avg_err = NaN
    THEN [exc |-> "ValueError", prec |-> 0, log |-> TRUE]
    ELSE [exc |-> "none", prec |-> FloorLog10(avg) - FloorLog10(avg_err) + 1, log |-> TRUE]

\* The precision generateText binds: 2 when avg or avg_err is 0, else
\* int(floor(log10(avg)) - floor(log10(avg_err)) + 1).  log10 of a negative
\* number is nan, and int(nan) is a ValueError.
precision(avg, avg_err) ==
    IF avg = Zero \/ avg_err = Zero
    THEN [exc |-> "none", prec |-> 2, log |-> FALSE]
    ELSE IF IsNegative(avg) \/ IsNegative(avg_err) \/ avg = NaN \/ avg_err = NaN
    THEN [exc |-> "ValueError", prec |-> 0, log |-> TRUE]
    ELSE [exc |-> "none", prec |-> FloorLog10(avg) - FloorLog10(avg_err) + 1, log |-> TRUE]

\* The keyword arguments of the format call with error display on.
ErrorArgs(val, avg, suf, err, avg_err, prec) ==
    [value |-> Rat(val, 1), avgValue |-> avg, suffix |-> suf,
     error |-> Rat(err, 1), avgError |-> avg_err, precision |-> prec]

\* The keyword arguments of the format call with error display off.
PlainArgs(val, avg, suf) ==
    [value |-> Rat(val, 1), avgValue |-> avg, suffix |-> suf]

SiErrorOptions == "error,groupedError=True,precision=6,space=False;replace(' ','&nbsp;')"

\* generateText from its second statement on, on the widget w.
render(w) ==
    LET avg == averageValue(w.values)
        last == w.values[Len(w.values)]
    IN  IF avg.exc # "none" THEN Raise(avg.exc)
        ELSE IF w.error
        THEN LET avg_err == averageError(w.values, w.errorType)
                 prec == precision(avg.val, avg_err.val)
             IN  IF avg_err.exc # "none" THEN Raise(avg_err.exc)
                 ELSE IF w.siPrefix
                 THEN Ok(<< SiAtom(avg.val, avg_err.val, w.suffix, SiErrorOptions) >>)
                 ELSE IF prec.exc # "none" THEN Raise(prec.exc)
                 ELSE Stripped(Format(w.formatStr,
                          ErrorArgs(last[2], avg.val, w.suffix, last[3], avg_err.val,
                                    prec.prec)))
        ELSE IF w.siPrefix
        THEN Ok(<< SiAtom(avg.val, Zero, w.suffix, "") >>)
        ELSE Stripped(Format(w.formatStr, PlainArgs(last[2], avg.val, w.suffix)))

\* generateText, were the buffer not tested for emptiness.
generateTextUnguarded(w) == render(w)

\* What generateText returns (text) or raises (exc) on the widget w.
generateText(w) ==
    IF Len(w.values) = 0 THEN Ok(<<>>) ELSE render(w)

\* The fields of the widget that generateText reads.
self ==
    [values |-> values, suffix |-> suffix, siPrefix |-> siPrefix,
     formatStr |-> formatStr, error |-> error, errorType |-> errorType]

\* ---------------------------------------------------------------- operations

\* The readings time() may return next: the time source is monotonic.
Time == clock..MaxTime

\* Evict, were a sample at the cutoff evicted too.
RECURSIVE EvictInclusive(_, _)
EvictInclusive(vals, cutoff) ==
    IF Len(vals) > 0 /\ vals[1][1] <= cutoff
    THEN EvictInclusive(Tail(vals), cutoff)
    ELSE vals

\* Evict, were the loop an if: at most one sample leaves.
EvictOnce(vals, cutoff) ==
    IF Len(vals) > 0 /\ vals[1][1] < cutoff THEN Tail(vals) ELSE vals

\* The while loop of setValue: samples older than cutoff leave at the front.
RECURSIVE Evict(_, _)
Evict(vals, cutoff) ==
    IF Len(vals) > 0 /\ vals[1][1] < cutoff THEN Evict(Tail(vals), cutoff) ELSE vals

Init ==
    /\ values = <<>>
    /\ averageTime \in AverageTimes
    /\ suffix \in Suffixes
    /\ siPrefix \in BOOLEAN
    /\ errorType \in ErrorTypes
    /\ error \in BOOLEAN
    /\ \E f \in {None} \cup Formats :
           formatStr = IF f # None THEN f
                       ELSE IF error THEN DefaultErrorFormat ELSE DefaultFormat
    /\ text = <<>>
    /\ refresh = TRUE
    /\ clock = 0
    /\ history = <<>>

\* setValue, were the window's sign not tested.
setValueUnguarded(now, value, err) ==
    /\ Len(history) < MaxCalls
    /\ values' = Evict(Append(values, <<now, value, err>>), now - averageTime)
    /\ refresh' = TRUE
    /\ clock' = now
    /\ history' = Append(history, <<now, value, err>>)
    /\ UNCHANGED <<averageTime, suffix, siPrefix, formatStr, error, errorType, text>>

\* setValue, were a window of 0 taken to mean no eviction.
setValuePositiveOnly(now, value, err) ==
    /\ Len(history) < MaxCalls
    /\ LET appended == Append(values, <<now, value, err>>)
       IN  values' = IF averageTime > 0
                     THEN Evict(appended, now - averageTime)
                     ELSE appended
    /\ refresh' = TRUE
    /\ clock' = now
    /\ history' = Append(history, <<now, value, err>>)
    /\ UNCHANGED <<averageTime, suffix, siPrefix, formatStr, error, errorType, text>>

setValue(now, value, err) ==
    /\ Len(history) < MaxCalls
    /\ LET appended == Append(values, <<now, value, err>>)
       IN  values' = IF averageTime >= 0
                     THEN Evict(appended, now - averageTime)
                     ELSE appended
    /\ refresh' = TRUE
    /\ clock' = now
    /\ history' = Append(history, <<now, value, err>>)
    /\ UNCHANGED <<averageTime, suffix, siPrefix, formatStr, error, errorType, text>>

setFormatStr(fmt) ==
    /\ formatStr' = fmt
    /\ refresh' = TRUE
    /\ UNCHANGED <<values, averageTime, suffix, siPrefix, error, errorType, text,
                   clock, history>>

\* setAverageTime, were the buffer pruned to the new window at once.
setAverageTimePruning(t) ==
    /\ averageTime' = t
    /\ values' = IF t >= 0 THEN Evict(values, clock - t) ELSE values
    /\ refresh' = TRUE
    /\ UNCHANGED <<suffix, siPrefix, formatStr, error, errorType, text, clock, history>>

setAverageTime(t) ==
    /\ averageTime' = t
    /\ UNCHANGED <<values, suffix, siPrefix, formatStr, error, errorType, text,
                   refresh, clock, history>>

setError(err) ==
    /\ error' = err
    /\ refresh' = TRUE
    /\ UNCHANGED <<values, averageTime, suffix, siPrefix, formatStr, errorType, text,
                   clock, history>>

setErrorType(type) ==
    /\ errorType' = type
    /\ UNCHANGED <<values, averageTime, suffix, siPrefix, formatStr, error, text,
                   refresh, clock, history>>

\* paintEvent, were the oldest sample dropped once rendered.
paintEventConsuming ==
    /\ text' = IF generateText(self).exc = "none" THEN generateText(self).text ELSE text
    /\ values' = IF values = <<>> THEN values ELSE Tail(values)
    /\ refresh' = FALSE
    /\ UNCHANGED <<averageTime, suffix, siPrefix, formatStr, error, errorType,
                   clock, history>>

\* The repaint: the text is set to what generateText returns; an exception
\* of generateText leaves paintEvent before setText.
paintEvent ==
    /\ text' = IF generateText(self).exc = "none" THEN generateText(self).text ELSE text
    /\ refresh' = FALSE
    /\ UNCHANGED <<values, averageTime, suffix, siPrefix, formatStr, error, errorType,
                   clock, history>>

\* The widget under a running clock: any interleaving of the operations, the
\* samples differing in their timestamps only.
Next ==
    \/ \E now \in Time, value \in AnyValue, err \in AnyError : setValue(now, value, err)
    \/ \E fmt \in Formats : setFormatStr(fmt)
    \/ \E t \in AverageTimes : setAverageTime(t)
    \/ \E err \in BOOLEAN : setError(err)
    \/ \E type \in ErrorTypes : setErrorType(type)
    \/ paintEvent

Spec == Init /\ [][Next]_vars

\* The widget between two readings of the clock: any interleaving of the
\* operations, the samples differing in their values and errors.
NextRender ==
    \/ \E value \in Values, err \in Errors :
           Len(history) < MaxSamples /\ setValue(clock, value, err)
    \/ \E fmt \in Formats : setFormatStr(fmt)
    \/ \E t \in AverageTimes : setAverageTime(t)
    \/ \E err \in BOOLEAN : setError(err)
    \/ \E type \in ErrorTypes : setErrorType(type)
    \/ paintEvent

SpecRender == Init /\ [][NextRender]_vars

\* The widget with a constant averaging window and setValue calls at
\* strictly increasing timestamps.
NextSteady ==
    \/ \E now \in Time \ {clock}, value \in AnyValue, err \in AnyError :
           setValue(now, value, err)
    \/ \E fmt \in Formats : setFormatStr(fmt)
    \/ \E err \in BOOLEAN : setError(err)
    \/ \E type \in ErrorTypes : setErrorType(type)
    \/ paintEvent

SpecSteady == Init /\ [][NextSteady]_vars

\* ---------------------------------------------------------------- claims

\* s is an initial segment of t.
IsPrefix(s, t) == Len(s) <= Len(t) /\ SubSeq(t, 1, Len(s)) = s

\* Every sample of vals is within w of the timestamp of the last one.
Within(vals, w) ==
    \A i \in 1..Len(vals) : Abs(vals[Len(vals)][1] - vals[i][1]) <= w

\* The samples of the log with a timestamp in lo..hi, in insertion order.
Logged(lo, hi) == SelectSeq(history, LAMBDA s : lo <= s[1] /\ s[1] <= hi)

\* The named fields the format call of generateText binds.
BoundFields ==
    IF error THEN DOMAIN ErrorArgs(0, Zero, "", 0, Zero, 0)
    ELSE DOMAIN PlainArgs(0, Zero, "")

\* The fields of the widget that generateText reads, after a step.
selfNext ==
    [values |-> values', suffix |-> suffix', siPrefix |-> siPrefix',
     formatStr |-> formatStr', error |-> error', errorType |-> errorType']

\* C1, as claimed: under a constant window T >= 0 and strictly increasing
\* timestamps, after each setValue call the buffer holds exactly the logged
\* samples with a timestamp in (now - T, now], in insertion order.
C1_OpenWindow ==
    (averageTime >= 0 /\ history # <<>>)
        => values = Logged(clock - averageTime + 1, clock)

\* C1, amended: under a constant window T >= 0 and strictly increasing
\* timestamps, after each setValue call the buffer holds exactly the logged
\* samples with a timestamp in [now - T, now], in insertion order: a sample
\* exactly T old stays.
C1_ClosedWindow ==
    (averageTime >= 0 /\ history # <<>>)
        => values = Logged(clock - averageTime, clock)

\* C1: a third call has evicted the first sample and kept the one exactly T old.
C1_Witness ==
    /\ averageTime = 1
    /\ Len(history) = 3
    /\ Len(values) = 2
    /\ values[1][1] = clock - averageTime

\* C2, as claimed: in every reachable state with averageTime >= 0, every
\* retained sample is within averageTime of the last sample of the buffer.
C2_AlwaysWithin ==
    averageTime >= 0 => Within(values, averageTime)

\* C2, amended: with averageTime >= 0, every retained sample is within
\* averageTime of the last sample after every setValue call, and stays so
\* over every step that does not change averageTime.
C2_WithinAfterSetValue ==
    [][ /\ (history' # history /\ averageTime' >= 0) => Within(values', averageTime')
        /\ (averageTime' = averageTime /\ averageTime >= 0 /\ Within(values, averageTime))
              => Within(values', averageTime') ]_vars

\* C2: a setValue call has evicted and the buffer still holds two samples.
C2_Witness ==
    /\ averageTime = 1
    /\ Len(history) > Len(values)
    /\ Len(values) = 2
    /\ values[1][1] < values[2][1]
    /\ Within(values, averageTime)

\* C3: while averageTime < 0 no step removes a sample, and every setValue
\* call makes the buffer exactly one sample longer.
C3_NeverShrinks ==
    [][ averageTime < 0 =>
          /\ IsPrefix(values, values')
          /\ history' # history => Len(values') = Len(values) + 1 ]_vars

\* C3: an infinite window holds samples that any window of 1 would have evicted.
C3_Witness ==
    /\ averageTime < 0
    /\ Len(values) = MaxCalls
    /\ values = history
    /\ clock - values[1][1] >= 2

\* C4: on an empty buffer generateText returns the empty string and raises
\* nothing, whatever the configuration; averageValue is never evaluated on
\* an empty buffer (its TypeError never leaves generateText).
C4_EmptyBuffer ==
    /\ Len(values) = 0 => generateText(self) = Ok(<<>>)
    /\ generateText(self).exc # "TypeError"

\* C4: an empty buffer has been painted with error display on, SI prefix on
\* and an unrecognised selector.
C4_Witness ==
    /\ values = <<>>
    /\ ~refresh
    /\ text = <<>>
    /\ error /\ siPrefix /\ errorType = "bogus" /\ suffix = "V"

\* C5: under a selector other than max, stdDev and stdErr, averageError of a
\* non-empty buffer raises nothing and is the mean of the retained errors,
\* the result under avg.
C5_UnknownIsAvg ==
    (values # <<>> /\ errorType \notin {"max", "stdDev", "stdErr"})
        => /\ averageError(values, errorType) = Value(Mean(values, 3))
           /\ averageError(values, errorType) = averageError(values, "avg")

\* C5: under the selector bogus a buffer whose mean error differs from its
\* max error and from its standard deviation has been painted with the mean.
C5_Witness ==
    /\ errorType = "bogus" /\ error /\ ~siPrefix /\ ~refresh
    /\ formatStr = DefaultErrorFormat
    /\ Len(values) = 2
    /\ Mean(values, 3) # Rat(MaxOf(values, 3), 1)
    /\ Mean(values, 3) # Std(values, 2)
    /\ Len(text) >= 5
    /\ text[5] = NumAtom(Mean(values, 3), ".1g", 1)

\* C6: with error display on and SI prefix off, when the average value or
\* the average error is 0 the precision is 2, no logarithm is taken, the
\* rendering raises nothing and a {precision} field is rendered with 2.
C6_ZeroPrecision ==
    LET avg == averageValue(values).val
        avg_err == averageError(values, errorType).val
    IN  (values # <<>> /\ error /\ ~siPrefix /\ (avg = Zero \/ avg_err = Zero))
            => /\ precision(avg, avg_err) = [exc |-> "none", prec |-> 2, log |-> FALSE]
               /\ generateText(self).exc = "none"
               /\ formatStr = DefaultErrorFormat
                     => generateText(self).text[1] = NumAtom(avg, ".{precision}g", 2)

\* C6: a buffer of average value 1 and average error 0 has been painted
\* under the default template with precision 2.
C6_Witness ==
    /\ error /\ ~siPrefix /\ ~refresh
    /\ formatStr = DefaultErrorFormat
    /\ values # <<>>
    /\ averageValue(values).val = Rat(1, 1)
    /\ averageError(values, errorType).val = Zero
    /\ text # <<>>
    /\ text[1] = NumAtom(Rat(1, 1), ".{precision}g", 2)

\* A step of paintEvent: it answers the pending refresh or changes the text.
PaintStep == (refresh /\ ~refresh') \/ text' # text

\* C7: a step that changes averageTime changes nothing else: the buffer, the
\* other configuration fields, the text and the pending refresh stay; the
\* window in force prunes at the next setValue call, after which the oldest
\* retained sample is not older than it.
C7_SetAverageTimeFrame ==
    [][ /\ averageTime' # averageTime =>
              UNCHANGED <<values, suffix, siPrefix, formatStr, error, errorType,
                          text, refresh, clock, history>>
        /\ (history' # history /\ averageTime >= 0) =>
              (values' # <<>> /\ values'[1][1] >= clock' - averageTime) ]_vars

\* C7: after a repaint the window was narrowed: the buffer still holds a
\* sample older than the window and no refresh is pending.
C7_Witness ==
    /\ averageTime >= 0
    /\ ~refresh
    /\ Len(values) >= 2
    /\ values[1][1] < clock - averageTime

\* C8: a repaint leaves the buffer and the configuration as they were, so
\* that generateText returns after it what it returned before it, and the
\* text it set is what the next call returns.
C8_Idempotent ==
    [][ PaintStep =>
          /\ UNCHANGED <<values, averageTime, suffix, siPrefix, formatStr, error,
                         errorType>>
          /\ generateText(selfNext) = generateText(self)
          /\ generateText(self).exc = "none" => text' = generateText(selfNext).text ]_vars

\* C8: a non-empty buffer has been painted and the label shows what
\* generateText returns.
C8_Witness ==
    /\ ~refresh
    /\ Len(values) = 2
    /\ generateText(self).exc = "none"
    /\ text # <<>>
    /\ text = generateText(self).text

\* C9: a setValue call under averageTime = 0 leaves only samples stamped
\* with the time of the call, and the one sample just set when the clock has
\* advanced since the call before.
C9_ZeroWindow ==
    [][ (history' # history /\ averageTime = 0) =>
          /\ \A i \in 1..Len(values') : values'[i][1] = clock'
          /\ clock' > clock => values' = << history'[Len(history')] >> ]_vars

\* C9: under averageTime = 0 a later call has left its own sample alone.
C9_Witness ==
    /\ averageTime = 0
    /\ Len(history) >= 2
    /\ history[1][1] < clock
    /\ values = << history[Len(history)] >>

\* C10, as claimed: while formatStr is a default template, every field it
\* names is bound by the format call for the current error flag, and the
\* rendering of a non-empty buffer without SI prefix raises no KeyError.
C10_DefaultsRender ==
    (formatStr \in {DefaultErrorFormat, DefaultFormat} /\ values # <<>> /\ ~siPrefix)
        => /\ FieldsOf(formatStr) \subseteq BoundFields
           /\ generateText(self).exc # "KeyError"

====
